---- MODULE Spec2Model ----
(***************************************************************************)
(* ephemeral_hub backend: the hub records kept in the expiring record      *)
(* store (handlers.rs) and the per-hub websocket rooms (websocket.rs).     *)
(*                                                                         *)
(* Time is counted in whole seconds, the unit of SET .. EX and of TTL.     *)
(* Every await of a handler that touches shared state (the record store,   *)
(* the object store, a room's channel) is one action, so that the steps of *)
(* concurrent handlers and the passage of time interleave between them.    *)
(***************************************************************************)
EXTENDS Integers, Sequences, FiniteSets, TLC

VARIABLES
    now,        \* wall clock, in seconds
    ticks,      \* number of clock advances so far
    store,      \* record store: key -> [val: serialized hub, exp: expiry instant]
    evicted,    \* history: the keys the store has evicted on expiry
    blobs,      \* object store: s3 key -> bytes
    used,       \* ids nanoid has generated
    added,      \* history: per hub id, the files of the uploads that were answered OK
    nev,        \* number of requests, connections and frames the clients have issued
    http,       \* the HTTP worker tasks: position and locals of the running handler
    resp,       \* the response the HTTP layer returned last
    rooms,      \* AppWsState.rooms: space id -> broadcast channel
    chans,      \* the broadcast channels: the frames each one has accepted
    sess,       \* the websocket connections: handle_socket and its two tasks; err
                \* is what the task logs: a store call of the last frame failed;
                \* closed: the client has closed the connection's transport;
                \* closed_at (history): the frames its room had accepted by then
    delivered   \* history: the frames written to each connection's client

vars == <<now, ticks, store, evicted, blobs, used, added, nev, http, resp,
          rooms, chans, sess, delivered>>

storeVars == <<now, ticks, store, evicted>>
httpVars == <<blobs, used, added, http, resp>>
roomVars == <<rooms, chans, sess, delivered>>

----------------------------------------------------------------------------
(* Bounds of the exploration *)

MaxTicks == 2
MaxEvents == 3

(* Program constants *)

ttl_seconds == 86400
ChannelCapacity == 100

StatusOk == 200
StatusCreated == 201
StatusBadRequest == 400
StatusNotFound == 404
StatusInternal == 500

----------------------------------------------------------------------------
(* Input domains *)

Ids == {"h1", "h2"}
Procs == {"p1", "p2"}
Sessions == {"s1", "s2"}
Texts == {"hello"}
Filenames == {"a.txt"}
Datas == {<<7, 8>>}

\* one multipart field: a file name and its bytes
Parts == [filename : Filenames, data : Datas]
Uploads == {<<>>} \cup {<<x>> : x \in Parts}

\* more uploads: other bytes under a name already used, and two files at once
PartA == [filename |-> "a.txt", data |-> <<7, 8>>]
PartA2 == [filename |-> "a.txt", data |-> <<9>>]
PartB == [filename |-> "b.txt", data |-> <<9>>]
MultiUploads == Uploads \cup {<<PartA2>>, <<PartA, PartB>>}

\* the clock advances by a second, or by a long pause that brings a fresh
\* record to its last second
TickSteps == {1, ttl_seconds - 1}

WelcomeText == "Welcome to your ephemeral hub!"

----------------------------------------------------------------------------
(* Option<T> *)

None == <<>>
Some(v) == <<v>>
IsSome(o) == Len(o) = 1
Unwrap(o) == o[1]

----------------------------------------------------------------------------
(* Hub and its JSON form *)

Hub(id, content, created_at, files, whiteboard) ==
    [id |-> id, content |-> content, created_at |-> created_at,
     files |-> files, whiteboard |-> whiteboard]

FileInfo(filename, size) == [filename |-> filename, size |-> size]

NoHub == Hub("", "", 0, <<>>, <<>>)

\* serde_json::to_string(&hub): the object's members in declaration order
to_string(hub) ==
    <<<<"id", hub.id>>, <<"content", hub.content>>,
      <<"created_at", hub.created_at>>, <<"files", hub.files>>,
      <<"whiteboard", hub.whiteboard>>>>

Member(json, name) ==
    (CHOOSE m \in {json[i] : i \in DOMAIN json} : m[1] = name)[2]

\* serde_json::from_str::<Hub>(&json)
from_str(json) ==
    Hub(Member(json, "id"), Member(json, "content"), Member(json, "created_at"),
        Member(json, "files"), Member(json, "whiteboard"))

----------------------------------------------------------------------------
(* shared_types.rs: PathData, WsMessage and the text of a websocket frame *)

PathData(id, points, color, stroke_width) ==
    [id |-> id, points |-> points, color |-> color, stroke_width |-> stroke_width]

NoPath == PathData("", <<>>, "", 0)

Stroke1 == PathData("u1-a", <<<<0, 0>>, <<1, 1>>>>, "red", 2)

\* a frame's text: a JSON object with one member, the variant's name
FrameText(variant, path) == <<variant, path>>

Frames == {FrameText("PathCompleted", Stroke1), FrameText("CursorMoved", Stroke1)}

\* mutant of ws_from_str: every frame that carries a path parses
ws_from_str_any(text) == Some(text[2])

\* serde_json::from_str::<WsMessage>(&text): only the PathCompleted variant parses
ws_from_str(text) == IF text[1] = "PathCompleted" THEN Some(text[2]) ELSE None

\* what the client's stream yields: a text frame, or anything else (a close,
\* a binary frame, an error, the end of the stream)
Incoming == {[kind |-> "text", text |-> f] : f \in Frames}
            \cup {[kind |-> "close", text |-> FrameText("", NoPath)]}

\* a second stroke, for the order in which strokes are persisted
Stroke2 == PathData("u1-b", <<<<2, 2>>>>, "blue", 1)

Strokes == Incoming \cup {[kind |-> "text", text |-> FrameText("PathCompleted", Stroke2)]}

----------------------------------------------------------------------------
(* Keys *)

hub_key(id) == "hub:" \o id
space_key(id) == "space:" \o id
s3_key(id, filename) == id \o "/" \o filename

Keys == {hub_key(i) : i \in Ids} \cup {space_key(i) : i \in Ids}

----------------------------------------------------------------------------
(* The record store: GET, TTL, SET key value EX seconds, and expiry *)

Live(st, t) == [k \in {x \in DOMAIN st : st[x].exp > t} |-> st[k]]

\* mutant of GET: a missing key reads as an empty record
GET_default(k) == IF k \in DOMAIN store THEN Some(store[k].val) ELSE Some(to_string(NoHub))

GET(k) == IF k \in DOMAIN store THEN Some(store[k].val) ELSE None

TTL(k) == IF k \in DOMAIN store THEN store[k].exp - now ELSE -2

SET_EX(k, v, seconds) ==
    [x \in DOMAIN store \cup {k} |->
        IF x = k THEN [val |-> v, exp |-> now + seconds] ELSE store[x]]

(* The object store *)

put_object(key, body) ==
    [x \in DOMAIN blobs \cup {key} |-> IF x = key THEN body ELSE blobs[x]]

----------------------------------------------------------------------------
(* History kept for the properties *)

IsPrefix(a, b) == Len(a) <= Len(b) /\ \A i \in 1..Len(a) : a[i] = b[i]

\* writing v under k removes an entry of the stored files or whiteboard list
Drops(k, v) ==
    /\ k \in DOMAIN store
    /\ \/ ~IsPrefix(from_str(store[k].val).files, from_str(v).files)
       \/ ~IsPrefix(from_str(store[k].val).whiteboard, from_str(v).whiteboard)

----------------------------------------------------------------------------
(* HTTP worker tasks *)

NoJson == to_string(NoHub)

IdleTask ==
    [pc |-> "idle", op |-> "none", id |-> "", body |-> "", hub |-> NoHub,
     seen |-> NoJson, rem |-> 0, ttl |-> 0, todo |-> <<>>, parts |-> <<>>,
     zip |-> <<>>, had |-> <<>>, atput |-> NoJson]

NoResponse ==
    [op |-> "none", id |-> "", status |-> 0, wrote |-> FALSE, lost |-> FALSE,
     expires_at |-> 0, archive |-> <<>>, hub |-> NoHub, left |-> 0]

Free(p) == http[p].pc = "idle" /\ nev < MaxEvents

Begin(op, id) == [IdleTask EXCEPT !.op = op, !.id = id]

\* mutant of Response: the answer carries what the handler has zipped
Response_with_zip(t, status) ==
    [op |-> t.op, id |-> t.id, status |-> status, wrote |-> FALSE, lost |-> FALSE,
     expires_at |-> 0, archive |-> t.zip, hub |-> NoHub, left |-> Len(t.todo)]

\* the handler returns (left keeps, as history, how many entries of the list
\* the handler walks it had not come to)
Response(t, status) ==
    [op |-> t.op, id |-> t.id, status |-> status, wrote |-> FALSE, lost |-> FALSE,
     expires_at |-> 0, archive |-> <<>>, hub |-> NoHub, left |-> Len(t.todo)]

\* mutant of into_response: every error is answered 200
into_response_ok(err) == StatusOk

\* impl IntoResponse for AppError: the status of each error
into_response(err) ==
    CASE err = "NotFound" -> StatusNotFound
      [] err = "UploadError" -> StatusBadRequest
      [] OTHER -> StatusInternal

Return(p, t, status) ==
    /\ http' = [http EXCEPT ![p] = IdleTask]
    /\ resp' = Response(t, status)

\* the handler returns after its SET of json under key
ReturnWritten(p, status, key, json) ==
    /\ http' = [http EXCEPT ![p] = IdleTask]
    /\ resp' = [Response(http[p], status) EXCEPT
                    !.wrote = TRUE, !.lost = Drops(key, json)]

\* nanoid!(10): a random id; nothing compares it with the ids generated before
\* or with the keys of the store
nanoid == Ids

----------------------------------------------------------------------------
(* create_hub *)

\* Duration::hours(n), in seconds
hours(n) == n * 3600

\* mutant of expires_at: half a day
expires_at_12h(t) == t + hours(12)

\* CreateHubResponse.expires_at: now + Duration::hours(24), now being the
\* instant taken for created_at
expires_at(t) == t + hours(24)

\* mutant of new_hub: the new record lists a file
new_hub_with_file(id, t) == Hub(id, WelcomeText, t, <<FileInfo("a.txt", 2)>>, <<>>)

new_hub(id, t) == Hub(id, WelcomeText, t, <<>>, <<>>)

create_hub_begin(p) ==
    /\ Free(p)
    /\ nev' = nev + 1
    /\ \E ok \in BOOLEAN :
        IF ~ok
        THEN /\ Return(p, Begin("create_hub", ""), StatusInternal)
             /\ used' = used
        ELSE \E id \in nanoid :
             /\ used' = used \cup {id}
             /\ http' = [http EXCEPT ![p] =
                    [Begin("create_hub", id) EXCEPT
                        !.pc = "create_set", !.hub = new_hub(id, now)]]
             /\ resp' = resp
    /\ UNCHANGED <<storeVars, blobs, added, roomVars>>

create_hub_set(p) ==
    /\ http[p].pc = "create_set"
    /\ \E ok \in BOOLEAN :
        IF ~ok
        THEN /\ Return(p, http[p], StatusInternal)
             /\ store' = store
        ELSE /\ store' = SET_EX(hub_key(http[p].id), to_string(http[p].hub), ttl_seconds)
             /\ http' = [http EXCEPT ![p] = IdleTask]
             /\ resp' = [Response(http[p], StatusCreated) EXCEPT
                    !.wrote = TRUE,
                    !.lost = Drops(hub_key(http[p].id), to_string(http[p].hub)),
                    !.expires_at = expires_at(http[p].hub.created_at)]
    /\ UNCHANGED <<now, ticks, evicted, blobs, used, added, nev, roomVars>>

----------------------------------------------------------------------------
(* get_hub *)

\* what get_hub answers for an id in the current state of the store
ReadHub(id) ==
    LET hub_json == GET(hub_key(id))
    IN IF IsSome(hub_json)
       THEN [status |-> StatusOk, hub |-> from_str(Unwrap(hub_json))]
       ELSE [status |-> StatusNotFound, hub |-> NoHub]

\* mutant of Json: the body is an empty record
Json_blank(hub) == NoHub

\* Ok(Json(hub)): the response body
Json(hub) == hub

get_hub(p) ==
    /\ Free(p)
    /\ nev' = nev + 1
    /\ \E id \in Ids, ok \in BOOLEAN :
        /\ http' = [http EXCEPT ![p] = IdleTask]
        /\ resp' = IF ok
                   THEN [Response(Begin("get_hub", id), ReadHub(id).status) EXCEPT
                            !.hub = Json(ReadHub(id).hub)]
                   ELSE Response(Begin("get_hub", id), StatusInternal)
    /\ UNCHANGED <<storeVars, blobs, used, added, roomVars>>

----------------------------------------------------------------------------
(* update_text_bin *)

\* mutants of set_content: the text is not stored; the record is rebuilt
\* around the text; the text takes the place of the files
set_content_kept(hub, body) == hub
set_content_rebuilt(hub, body) == Hub(hub.id, body, hub.created_at, <<>>, <<>>)
set_content_for_files(hub, body) == [hub EXCEPT !.content = body, !.files = <<>>]

set_content(hub, body) == [hub EXCEPT !.content = body]

\* mutant of ttl_live: the record is written back whatever TTL answered
ttl_live_always(ttl) == TRUE

\* if ttl > 0: the record is only written back while the key has time left
ttl_live(ttl) == ttl > 0

\* mutant of ex_seconds: the record is written back with the full duration
ex_seconds_full(ttl) == ttl_seconds

\* the seconds handed to SET .. EX when a record is written back
ex_seconds(ttl) == ttl

update_text_bin_get(p) ==
    /\ Free(p)
    /\ nev' = nev + 1
    /\ \E id \in Ids, body \in Texts, ok \in BOOLEAN :
        LET t == [Begin("update_text_bin", id) EXCEPT !.body = body]
            hub_json == GET(hub_key(id))
        IN IF ~ok THEN Return(p, t, StatusInternal)
           ELSE IF IsSome(hub_json)
           THEN /\ http' = [http EXCEPT ![p] =
                        [t EXCEPT !.pc = "text_ttl",
                                  !.seen = Unwrap(hub_json),
                                  !.rem = TTL(hub_key(id)),
                                  !.hub = set_content(from_str(Unwrap(hub_json)), body)]]
                /\ resp' = resp
           ELSE Return(p, t, into_response("NotFound"))
    /\ UNCHANGED <<storeVars, blobs, used, added, roomVars>>

update_text_bin_ttl(p) ==
    /\ http[p].pc = "text_ttl"
    /\ \E ok \in BOOLEAN :
        LET ttl == TTL(hub_key(http[p].id))
        IN IF ~ok THEN Return(p, http[p], StatusInternal)
           ELSE IF ttl_live(ttl)
           THEN /\ http' = [http EXCEPT ![p] = [@ EXCEPT !.pc = "text_set", !.ttl = ttl]]
                /\ resp' = resp
           ELSE Return(p, http[p], StatusOk)
    /\ UNCHANGED <<storeVars, blobs, used, added, nev, roomVars>>

update_text_bin_set(p) ==
    /\ http[p].pc = "text_set"
    /\ \E ok \in BOOLEAN :
        IF ~ok
        THEN /\ Return(p, http[p], StatusInternal)
             /\ store' = store
        ELSE /\ store' = SET_EX(hub_key(http[p].id), to_string(http[p].hub),
                                ex_seconds(http[p].ttl))
             /\ ReturnWritten(p, StatusOk, hub_key(http[p].id), to_string(http[p].hub))
    /\ UNCHANGED <<now, ticks, evicted, blobs, used, added, nev, roomVars>>

----------------------------------------------------------------------------
(* upload_file *)

\* mutant of push_file: the entry is put in front
push_file_front(files, filename, data) == <<FileInfo(filename, Len(data))>> \o files

push_file(files, filename, data) == Append(files, FileInfo(filename, Len(data)))

\* uploads: the multipart bodies the clients send; parts keeps, as history, the
\* body the request came with, and atput the record the store held when the
\* last blob put so far completed
upload_file_get(p, uploads) ==
    /\ Free(p)
    /\ nev' = nev + 1
    /\ \E id \in Ids, multipart \in uploads, ok \in BOOLEAN :
        LET t == Begin("upload_file", id)
            hub_json == GET(hub_key(id))
        IN IF ~ok THEN Return(p, t, StatusInternal)
           ELSE IF IsSome(hub_json)
           THEN /\ http' = [http EXCEPT ![p] =
                        [t EXCEPT !.pc = "upload_field", !.todo = multipart,
                                  !.parts = multipart,
                                  !.atput = Unwrap(hub_json),
                                  !.seen = Unwrap(hub_json),
                                  !.rem = TTL(hub_key(id)),
                                  !.hub = from_str(Unwrap(hub_json))]]
                /\ resp' = resp
           ELSE Return(p, t, into_response("NotFound"))
    /\ UNCHANGED <<storeVars, blobs, used, added, roomVars>>

\* one turn of the loop over the multipart fields: read the field's bytes and
\* put them in the bucket, then record the file in the local hub
upload_file_put(p) ==
    /\ http[p].pc = "upload_field"
    /\ http[p].todo /= <<>>
    /\ LET field == Head(http[p].todo)
       IN \E outcome \in {"ok", "upload_error", "s3_error"} :
            CASE outcome = "upload_error" ->
                    /\ Return(p, http[p], into_response("UploadError"))
                    /\ blobs' = blobs
              [] outcome = "s3_error" ->
                    /\ Return(p, http[p], into_response("S3PutError"))
                    /\ blobs' = blobs
              [] OTHER ->
                    /\ blobs' = put_object(s3_key(http[p].id, field.filename), field.data)
                    /\ http' = [http EXCEPT ![p] =
                          [@ EXCEPT !.todo = Tail(@),
                                    !.atput = IF hub_key(http[p].id) \in DOMAIN store
                                              THEN store[hub_key(http[p].id)].val
                                              ELSE NoJson,
                                    !.hub.files = push_file(@, field.filename, field.data)]]
                    /\ resp' = resp
    /\ UNCHANGED <<storeVars, used, added, nev, roomVars>>

upload_file_ttl(p) ==
    /\ http[p].pc = "upload_field"
    /\ http[p].todo = <<>>
    /\ \E ok \in BOOLEAN :
        LET ttl == TTL(hub_key(http[p].id))
        IN IF ~ok THEN Return(p, http[p], StatusInternal)
           ELSE IF ttl_live(ttl)
           THEN /\ http' = [http EXCEPT ![p] = [@ EXCEPT !.pc = "upload_set", !.ttl = ttl]]
                /\ resp' = resp
           ELSE Return(p, http[p], StatusOk)
    /\ added' = IF resp'.status = StatusOk /\ http'[p].pc = "idle"
                THEN [added EXCEPT ![http[p].id] = @ \o http[p].parts]
                ELSE added
    /\ UNCHANGED <<storeVars, blobs, used, nev, roomVars>>

upload_file_set(p) ==
    /\ http[p].pc = "upload_set"
    /\ \E ok \in BOOLEAN :
        IF ~ok
        THEN /\ Return(p, http[p], StatusInternal)
             /\ store' = store
             /\ added' = added
        ELSE /\ store' = SET_EX(hub_key(http[p].id), to_string(http[p].hub),
                                ex_seconds(http[p].ttl))
             /\ ReturnWritten(p, StatusOk, hub_key(http[p].id), to_string(http[p].hub))
             /\ added' = [added EXCEPT ![http[p].id] = @ \o http[p].parts]
    /\ UNCHANGED <<now, ticks, evicted, blobs, used, nev, roomVars>>

----------------------------------------------------------------------------
(* download_files *)

TextEntryName == "ephemeral_text_bin.txt"

ZipEntry(name, data) == [name |-> name, data |-> data]

\* hub.content.as_bytes(): the bytes of the text, kept apart from the text
as_bytes(content) == <<"utf8", content>>

\* mutant of zip_text: the archive starts with an empty text entry
zip_text_empty(hub) == <<ZipEntry(TextEntryName, as_bytes(""))>>

\* ZipWriter::new, start_file("ephemeral_text_bin.txt"), write_all(content)
zip_text(hub) == <<ZipEntry(TextEntryName, as_bytes(hub.content))>>

HasEntry(zip, name) == \E i \in DOMAIN zip : zip[i].name = name

\* (had keeps, as history, the files added to the hub when the record was read)

\* zip.finish() and the 200 response that carries the buffer
ReturnArchive(p, zip) ==
    /\ http' = [http EXCEPT ![p] = IdleTask]
    /\ resp' = [Response(http[p], StatusOk) EXCEPT !.archive = zip]

download_files_get(p) ==
    /\ Free(p)
    /\ nev' = nev + 1
    /\ \E id \in Ids, ok \in BOOLEAN :
        LET t == Begin("download_files", id)
            hub_json == GET(hub_key(id))
        IN IF ~ok THEN Return(p, t, StatusInternal)
           ELSE IF ~IsSome(hub_json) THEN Return(p, t, into_response("NotFound"))
           ELSE LET hub == from_str(Unwrap(hub_json))
                IN IF hub.files = <<>>
                   THEN /\ http' = [http EXCEPT ![p] = IdleTask]
                        /\ resp' = [Response(t, StatusOk) EXCEPT !.archive = zip_text(hub)]
                   ELSE /\ http' = [http EXCEPT ![p] =
                                [t EXCEPT !.pc = "download_fetch", !.hub = hub,
                                          !.seen = Unwrap(hub_json),
                                          !.rem = TTL(hub_key(id)),
                                          !.todo = hub.files, !.zip = zip_text(hub),
                                          !.had = added[id]]]
                        /\ resp' = resp
    /\ UNCHANGED <<storeVars, blobs, used, added, roomVars>>

\* one turn of the loop over hub.files: get_object, collect the body, start_file
\* and write_all; after the last file, zip.finish() and the response. A failed
\* get_object is an S3GetError; a body that fails while it is collected panics
\* the handler (unwrap), which leaves the caller without a response; a name the
\* archive already holds is refused by start_file or stored a second time,
\* as the zip crate in the build does
download_files_fetch(p) ==
    /\ http[p].pc = "download_fetch"
    /\ LET file_info == Head(http[p].todo)
           key == s3_key(http[p].id, file_info.filename)
       IN \E outcome \in {"ok", "s3_error", "body_error", "zip_error"} :
            CASE outcome = "s3_error" \/ (outcome = "ok" /\ key \notin DOMAIN blobs) ->
                    Return(p, http[p], StatusInternal)
              [] outcome = "body_error" ->
                    Return(p, http[p], 0)
              [] outcome = "zip_error" ->
                    /\ HasEntry(http[p].zip, file_info.filename)
                    /\ Return(p, http[p], StatusInternal)
              [] OTHER ->
                    LET zip == Append(http[p].zip, ZipEntry(file_info.filename, blobs[key]))
                    IN IF Tail(http[p].todo) = <<>>
                       THEN ReturnArchive(p, zip)
                       ELSE /\ http' = [http EXCEPT ![p] =
                                    [@ EXCEPT !.todo = Tail(@), !.zip = zip]]
                            /\ resp' = resp
    /\ UNCHANGED <<storeVars, blobs, used, added, nev, roomVars>>

----------------------------------------------------------------------------
(* websocket.rs: handle_socket *)

NoEntry == [text |-> FrameText("", NoPath), from |-> "", seq |-> 0]

IdleSession ==
    [st |-> "Idle", id |-> "", tx |-> 0, rx |-> 0,
     send |-> "none", out |-> NoEntry,
     recv |-> "none", hub |-> NoHub, seen |-> NoJson, ttl |-> 0, err |-> FALSE,
     closed |-> FALSE, closed_at |-> 0, got |-> <<>>, sub_at |-> 0]

\* mutant of room_key: every space shares one entry of the room map
room_key_shared(space_id) == "h1"

\* the key of a space in the room map
room_key(space_id) == space_id

\* mutant of Receivers: a connection that closes takes the room's receivers
\* with it
Receivers_gone_on_close(ch) ==
    IF \E s \in Sessions : sess[s].tx = ch /\ sess[s].closed
    THEN {}
    ELSE {s \in Sessions : sess[s].tx = ch /\ sess[s].send \in {"recv", "forward"}}

\* the live Receivers of channel ch: the running send_tasks subscribed to it
Receivers(ch) ==
    {s \in Sessions : sess[s].tx = ch /\ sess[s].send \in {"recv", "forward"}}

\* mutant of tx_send: the sender's own receiver does not count
tx_send_others(s, text) ==
    IF Receivers(sess[s].tx) \ {s} = {}
    THEN chans
    ELSE [chans EXCEPT ![sess[s].tx] =
            Append(@, [text |-> text, from |-> s, seq |-> Len(@) + 1])]

\* tx.send(text): the frame is queued for the receivers; with none it is dropped.
\* An entry also records, as history, its sender and its place in the channel.
tx_send(s, text) ==
    IF Receivers(sess[s].tx) = {}
    THEN chans
    ELSE [chans EXCEPT ![sess[s].tx] =
            Append(@, [text |-> text, from |-> s, seq |-> Len(@) + 1])]

\* mutant of message_text: the payload is not carried over
message_text_empty(msg) == FrameText("", NoPath)

\* Message::Text(msg.into())
message_text(msg) == msg

\* mutant of push_path: the path is put in front
push_path_front(whiteboard, path) == <<path>> \o whiteboard

push_path(whiteboard, path) == Append(whiteboard, path)

\* mutant of rx_slot: the receiver is handed the newest entries first
rx_slot_newest(ch, rx) == ch[Len(ch) - rx + 1]

\* rx.recv(): the oldest entry of the channel the receiver has not seen
rx_slot(ch, rx) == ch[rx]

\* mutant of rx_advance: the receiver stays on the entry it has returned
rx_advance_stay(rx) == rx

\* rx.recv() moves the receiver past the entry it returns
rx_advance(rx) == rx + 1

\* mutant of or_insert_with: the entry is replaced by the new value
or_insert_always(map, key, new) == new

\* entry(key).or_insert_with(|| new): the value the map holds under key
\* afterwards
or_insert_with(map, key, new) == IF key \in DOMAIN map THEN map[key] ELSE new

\* the room map is locked; rooms.entry(space_id).or_insert_with(||
\* broadcast::channel(100).0).clone()
ws_join(s) ==
    /\ sess[s].st = "Idle"
    /\ nev < MaxEvents
    /\ nev' = nev + 1
    /\ \E space_id \in Ids :
        LET key == room_key(space_id)
            ch == or_insert_with(rooms, key, Len(chans) + 1)
            fresh == ch > Len(chans)
        IN /\ rooms' = [x \in DOMAIN rooms \cup {key} |-> IF x = key THEN ch ELSE rooms[x]]
           /\ chans' = IF fresh THEN Append(chans, <<>>) ELSE chans
           /\ sess' = [sess EXCEPT ![s] =
                    [IdleSession EXCEPT !.st = "Connecting", !.id = space_id, !.tx = ch]]
    /\ UNCHANGED <<storeVars, httpVars, delivered>>

\* mutant of subscribe: the receiver starts at the oldest frame of the channel
subscribe_from_start(ch) == 1

\* tx.subscribe(): the new receiver's place is behind the frames the channel
\* has accepted
subscribe(ch) == Len(ch) + 1

\* tx.subscribe(), then the two tasks are spawned (sub_at keeps, as history,
\* how many frames the channel had accepted)
ws_subscribe(s) ==
    /\ sess[s].st = "Connecting"
    /\ sess' = [sess EXCEPT ![s] =
            [@ EXCEPT !.st = "Active", !.rx = subscribe(chans[sess[s].tx]),
                      !.sub_at = Len(chans[sess[s].tx]),
                      !.send = "recv", !.recv = "next"]]
    /\ UNCHANGED <<storeVars, httpVars, nev, rooms, chans, delivered>>

\* send_task: rx.recv().await
ws_send_recv(s) ==
    /\ sess[s].send = "recv"
    /\ sess[s].rx <= Len(chans[sess[s].tx])
    /\ sess' = [sess EXCEPT ![s] =
            IF Len(chans[sess[s].tx]) - sess[s].rx >= ChannelCapacity
            THEN [@ EXCEPT !.send = "done"]
            ELSE [@ EXCEPT !.send = "forward", !.rx = rx_advance(@),
                           !.out = rx_slot(chans[sess[s].tx], sess[s].rx)]]
    /\ UNCHANGED <<storeVars, httpVars, nev, rooms, chans, delivered>>

\* send_task: sender.send(Message::Text(msg.into())).await
ws_send_forward(s) ==
    /\ sess[s].send = "forward"
    /\ \E ok \in BOOLEAN :
        IF ok
        THEN /\ delivered' = [delivered EXCEPT ![s] =
                    Append(@, [sess[s].out EXCEPT !.text = message_text(@)])]
             /\ sess' = [sess EXCEPT ![s] = [@ EXCEPT !.send = "recv", !.out = NoEntry]]
        ELSE /\ delivered' = delivered
             /\ sess' = [sess EXCEPT ![s] = [@ EXCEPT !.send = "done", !.out = NoEntry]]
    /\ UNCHANGED <<storeVars, httpVars, nev, rooms, chans>>

\* mutant of is_text: every item of the stream is taken for a text frame
is_text_any(msg) == TRUE

\* while let Some(Ok(Message::Text(text))) = receiver.next().await
is_text(msg) == msg.kind = "text"

\* recv_task: receiver.next().await yields; a text frame is published and, when
\* it parses as PathCompleted, handed to the persistence steps (incoming: what
\* the clients send; got keeps, as history, the paths handed over so far)
ws_frame(s, incoming) ==
    /\ sess[s].recv = "next"
    /\ ~sess[s].closed
    /\ nev < MaxEvents
    /\ nev' = nev + 1
    /\ \E msg \in incoming :
        IF is_text(msg)
        THEN /\ chans' = tx_send(s, msg.text)
             /\ sess' = [sess EXCEPT ![s] =
                    IF IsSome(ws_from_str(msg.text))
                    THEN [@ EXCEPT !.recv = "get", !.err = FALSE,
                                   !.got = Append(@, Unwrap(ws_from_str(msg.text))),
                                   !.hub = [NoHub EXCEPT !.whiteboard =
                                                <<Unwrap(ws_from_str(msg.text))>>]]
                    ELSE [@ EXCEPT !.err = FALSE]]
        ELSE /\ chans' = chans
             /\ sess' = [sess EXCEPT ![s] = [@ EXCEPT !.recv = "done", !.err = FALSE]]
    /\ UNCHANGED <<storeVars, httpVars, rooms, delivered>>

\* the client closes the transport of a running connection
ws_close(s) ==
    /\ sess[s].st = "Active"
    /\ ~sess[s].closed
    /\ nev < MaxEvents
    /\ nev' = nev + 1
    /\ sess' = [sess EXCEPT ![s] =
            [@ EXCEPT !.closed = TRUE, !.closed_at = Len(chans[sess[s].tx])]]
    /\ UNCHANGED <<storeVars, httpVars, rooms, chans, delivered>>

\* recv_task: receiver.next().await on a closed transport ends the loop
ws_recv_end(s) ==
    /\ sess[s].recv = "next"
    /\ sess[s].closed
    /\ sess' = [sess EXCEPT ![s] = [@ EXCEPT !.recv = "done", !.err = FALSE]]
    /\ UNCHANGED <<storeVars, httpVars, nev, rooms, chans, delivered>>

\* recv_task: state.redis.get().await, then conn.get(&key).await; the path is
\* pushed on the decoded record
ws_get(s) ==
    /\ sess[s].recv = "get"
    /\ \E ok \in BOOLEAN :
        LET key == space_key(sess[s].id)
            space_json == GET(key)
            path == sess[s].hub.whiteboard[1]
        IN sess' = [sess EXCEPT ![s] =
            IF ok /\ IsSome(space_json)
            THEN [@ EXCEPT !.recv = "ttl", !.seen = Unwrap(space_json),
                           !.hub = [from_str(Unwrap(space_json)) EXCEPT
                                        !.whiteboard = push_path(@, path)]]
            ELSE [@ EXCEPT !.recv = "next", !.hub = NoHub, !.err = ~ok]]
    /\ UNCHANGED <<storeVars, httpVars, nev, rooms, chans, delivered>>

\* recv_task: conn.ttl(&key).await.unwrap_or(-1)
ws_ttl(s) ==
    /\ sess[s].recv = "ttl"
    /\ \E ok \in BOOLEAN :
        LET ttl == IF ok THEN TTL(space_key(sess[s].id)) ELSE -1
        IN sess' = [sess EXCEPT ![s] =
            IF ttl_live(ttl)
            THEN [@ EXCEPT !.recv = "set", !.ttl = ttl]
            ELSE [@ EXCEPT !.recv = "next", !.hub = NoHub, !.seen = NoJson, !.err = ~ok]]
    /\ UNCHANGED <<storeVars, httpVars, nev, rooms, chans, delivered>>

\* recv_task: conn.set_ex(&key, updated_json, ttl as usize).await.unwrap()
ws_set(s) ==
    /\ sess[s].recv = "set"
    /\ \E ok \in BOOLEAN :
        IF ok
        THEN /\ store' = SET_EX(space_key(sess[s].id), to_string(sess[s].hub),
                                ex_seconds(sess[s].ttl))
             /\ sess' = [sess EXCEPT ![s] =
                    [@ EXCEPT !.recv = "next", !.hub = NoHub, !.seen = NoJson, !.ttl = 0]]
        ELSE /\ store' = store
             /\ sess' = [sess EXCEPT ![s] =
                    [@ EXCEPT !.recv = "done", !.hub = NoHub, !.seen = NoJson, !.ttl = 0,
                              !.err = TRUE]]
    /\ UNCHANGED <<now, ticks, evicted, httpVars, nev, rooms, chans, delivered>>

\* mutant of abort: the other task is left running
abort_not(task) == IF task = "done" THEN "done" ELSE "running"

\* JoinHandle::abort() on the task that has not finished
abort(task) == IF task = "done" THEN "done" ELSE "aborted"

\* tokio::select!: the first task to finish has the other one aborted
ws_select(s) ==
    /\ sess[s].st = "Active"
    /\ sess[s].send = "done" \/ sess[s].recv = "done"
    /\ sess' = [sess EXCEPT ![s] =
            [@ EXCEPT !.st = "Closed",
                      !.send = abort(@),
                      !.recv = abort(@),
                      !.out = NoEntry, !.hub = NoHub, !.seen = NoJson, !.ttl = 0]]
    /\ UNCHANGED <<storeVars, httpVars, nev, rooms, chans, delivered>>

----------------------------------------------------------------------------
(* The clock: time passes and the store evicts the keys whose time is up *)

Tick ==
    /\ ticks < MaxTicks
    /\ \E d \in TickSteps :
        /\ now' = now + d
        /\ store' = Live(store, now + d)
        /\ evicted' = evicted \cup (DOMAIN store \ DOMAIN Live(store, now + d))
    /\ ticks' = ticks + 1
    /\ UNCHANGED <<httpVars, nev, roomVars>>

----------------------------------------------------------------------------

\* The server starts on a store that holds one hub, created at this instant
\* through create_hub, and one record under the key of the websocket handler.
FirstId == "h1"

InitStore ==
    [k \in {hub_key(FirstId), space_key(FirstId)} |->
        [val |-> to_string(new_hub(FirstId, 0)), exp |-> ttl_seconds]]

Init ==
    /\ now = 0
    /\ ticks = 0
    /\ store = InitStore
    /\ evicted = {}
    /\ blobs = <<>>
    /\ used = {FirstId}
    /\ added = [i \in Ids |-> <<>>]
    /\ nev = 0
    /\ http = [p \in Procs |-> IdleTask]
    /\ resp = NoResponse
    /\ rooms = <<>>
    /\ chans = <<>>
    /\ sess = [s \in Sessions |-> IdleSession]
    /\ delivered = [s \in Sessions |-> <<>>]

HttpNext ==
    \E p \in Procs :
        \/ create_hub_begin(p)
        \/ create_hub_set(p)
        \/ get_hub(p)
        \/ update_text_bin_get(p)
        \/ update_text_bin_ttl(p)
        \/ update_text_bin_set(p)
        \/ upload_file_get(p, Uploads)
        \/ upload_file_put(p)
        \/ upload_file_ttl(p)
        \/ upload_file_set(p)
        \/ download_files_get(p)
        \/ download_files_fetch(p)

WsNext ==
    \E s \in Sessions :
        \/ ws_join(s)
        \/ ws_subscribe(s)
        \/ ws_send_recv(s)
        \/ ws_send_forward(s)
        \/ ws_frame(s, Incoming)
        \/ ws_close(s)
        \/ ws_recv_end(s)
        \/ ws_get(s)
        \/ ws_ttl(s)
        \/ ws_set(s)
        \/ ws_select(s)

Next == Tick \/ HttpNext \/ WsNext

Spec == Init /\ [][Next]_vars

\* The rooms alone, with the scheduler running every send_task that can run
WsFairness ==
    \A s \in Sessions : WF_vars(ws_send_recv(s)) /\ WF_vars(ws_send_forward(s))

LiveSpec == Init /\ [][Tick \/ WsNext]_vars /\ WsFairness

\* The rooms alone from the moment one connection is up in the first space's
\* room, with the scheduler running every task of a connection that can run and
\* every call to the store returning
RoomInit ==
    /\ now = 0
    /\ ticks = 0
    /\ store = InitStore
    /\ evicted = {}
    /\ blobs = <<>>
    /\ used = {FirstId}
    /\ added = [i \in Ids |-> <<>>]
    /\ nev = 0
    /\ http = [p \in Procs |-> IdleTask]
    /\ resp = NoResponse
    /\ rooms = [k \in {room_key(FirstId)} |-> 1]
    /\ chans = <<<<>>>>
    /\ sess = [s \in Sessions |->
                IF s = "s1"
                THEN [IdleSession EXCEPT !.st = "Active", !.id = FirstId, !.tx = 1,
                                         !.rx = 1, !.send = "recv", !.recv = "next"]
                ELSE IdleSession]
    /\ delivered = [s \in Sessions |-> <<>>]

\* The hub's text and files alone, with the larger uploads
FileNext ==
    \E p \in Procs :
        \/ update_text_bin_get(p)
        \/ update_text_bin_ttl(p)
        \/ update_text_bin_set(p)
        \/ upload_file_get(p, MultiUploads)
        \/ upload_file_put(p)
        \/ upload_file_ttl(p)
        \/ upload_file_set(p)
        \/ download_files_get(p)
        \/ download_files_fetch(p)

FileSpec == Init /\ [][FileNext]_vars

RoomFairness ==
    \A s \in Sessions :
        /\ WF_vars(ws_subscribe(s))
        /\ WF_vars(ws_send_recv(s))
        /\ WF_vars(ws_send_forward(s))
        /\ WF_vars(ws_recv_end(s))
        /\ WF_vars(ws_get(s))
        /\ WF_vars(ws_ttl(s))
        /\ WF_vars(ws_set(s))
        /\ WF_vars(ws_select(s))

RoomSpec == RoomInit /\ [][WsNext]_vars /\ RoomFairness

\* The rooms alone, with clients that draw more than one stroke
RelayNext ==
    \E s \in Sessions :
        \/ ws_join(s)
        \/ ws_subscribe(s)
        \/ ws_send_recv(s)
        \/ ws_send_forward(s)
        \/ ws_frame(s, Strokes)
        \/ ws_close(s)
        \/ ws_recv_end(s)
        \/ ws_get(s)
        \/ ws_ttl(s)
        \/ ws_set(s)
        \/ ws_select(s)

RelaySpec == RoomInit /\ [][RelayNext]_vars /\ RoomFairness

----------------------------------------------------------------------------
(* Properties *)

Mutations == {"update_text_bin", "upload_file"}

\* the remaining TTL of key k in a store st at instant t (0 once it is gone)
Remaining(st, t, k) == IF k \in DOMAIN st THEN st[k].exp - t ELSE 0

\* task p returns in this step
Returns(p) == http[p].pc /= "idle" /\ http'[p].pc = "idle"

\* task p, resp. connection s, has its SET applied in this step
HttpWrites(p) ==
    /\ http[p].pc \in {"text_set", "upload_set"}
    /\ http'[p].pc = "idle"
    /\ resp'.wrote
WsWrites(s) == sess[s].recv = "set" /\ sess'[s].recv = "next"

(* C1: no resurrection: a key the store has evicted on expiry never exists
   again, whatever mutation was in flight when it expired. *)
C1_NoResurrection == \A k \in evicted : k \notin DOMAIN store

(* C2: the remaining TTL of a record never grows from one instant to the
   next, the instant at which a mutation writes the record back included. *)
C2_TtlNeverGrows ==
    [][\A k \in Keys :
        (k \in DOMAIN store /\ k \in DOMAIN store') =>
            Remaining(store', now', k) <= Remaining(store, now, k)]_vars

(* C3: when setText returns OK, the record's remaining TTL is at most the
   remaining TTL it had when the call started. *)
C3_SetTextTtlNotLarger ==
    [][\A p \in Procs :
        (http[p].op = "update_text_bin" /\ Returns(p) /\ resp'.status = StatusOk) =>
            Remaining(store', now', hub_key(http[p].id)) <= http[p].rem]_vars

(* C4: when setText(id, text) returns OK, a readHub(id) that finds the record
   returns content = text (until another mutation writes the record). *)
C4_SetTextThenRead ==
    [][\A p \in Procs : \A id \in Ids : \A text \in Texts :
        (/\ http[p].op = "update_text_bin"
         /\ http[p].id = id
         /\ http[p].body = text
         /\ Returns(p)
         /\ resp'.status = StatusOk) =>
            \/ ReadHub(id)'.status = StatusNotFound
            \/ ReadHub(id)'.hub.content = text]_vars

C4_Witness ==
    /\ resp.op = "update_text_bin"
    /\ resp.status = StatusOk
    /\ resp.wrote
    /\ ReadHub(resp.id).status = StatusOk
    /\ ReadHub(resp.id).hub.content \in Texts

(* C5: a mutation never answers OK without having written the record. *)
C5_OkOnlyIfWritten ==
    (resp.op \in Mutations /\ resp.status = StatusOk) => resp.wrote

(* C6: the files and whiteboard lists of a stored record keep every earlier
   value as a prefix, also when mutations of the hub run concurrently. *)
ListsGrow(old, new) ==
    /\ IsPrefix(from_str(old).files, from_str(new).files)
    /\ IsPrefix(from_str(old).whiteboard, from_str(new).whiteboard)

C6_ListsOnlyGrow ==
    [][\A k \in Keys :
        (k \in DOMAIN store /\ k \in DOMAIN store') =>
            ListsGrow(store[k].val, store'[k].val)]_vars

(* C6, amended: a mutation that writes the record back while the stored value
   is still the one it read keeps the stored files and whiteboard lists as
   prefixes of the new ones. *)
C6_ListsGrowWhenNotInterleaved ==
    [][/\ \A p \in Procs :
            LET k == hub_key(http[p].id)
            IN (HttpWrites(p) /\ k \in DOMAIN store /\ store[k].val = http[p].seen) =>
                    ListsGrow(store[k].val, store'[k].val)
       /\ \A s \in Sessions :
            LET k == space_key(sess[s].id)
            IN (WsWrites(s) /\ k \in DOMAIN store /\ store[k].val = sess[s].seen) =>
                    ListsGrow(store[k].val, store'[k].val)]_vars

\* a second upload has been written on top of the first one's entry
C6_Witness ==
    /\ resp.op = "upload_file"
    /\ resp.status = StatusOk
    /\ resp.wrote
    /\ ~resp.lost
    /\ ReadHub(resp.id).status = StatusOk
    /\ Len(ReadHub(resp.id).hub.files) = 2

(* C7: whenever a mutation writes the record back, also after another
   mutation's write has landed between its read and its write, the expiry it
   sets is the remaining TTL it read. *)
C7_WrittenTtlIsReadTtl ==
    [][/\ \A p \in Procs :
            HttpWrites(p) =>
                Remaining(store', now', hub_key(http[p].id)) = http[p].ttl
       /\ \A s \in Sessions :
            WsWrites(s) =>
                Remaining(store', now', space_key(sess[s].id)) = sess[s].ttl]_vars

\* a mutation has returned OK after a write that removed what another
\* mutation had written since its read
C7_Witness ==
    /\ resp.op \in Mutations
    /\ resp.status = StatusOk
    /\ resp.wrote
    /\ resp.lost

(* C8: when a connection of hub h has finished the persistence of a
   PathCompleted frame without a store error while h's record is live, the
   path is the last entry of the whiteboard that readHub(h) returns, and the
   record's remaining TTL is what it was. *)
C8_PathReachesHubRecord ==
    [][\A s \in Sessions : \A h \in Ids :
        (/\ sess[s].id = h
         /\ sess[s].recv \in {"get", "ttl", "set"}
         /\ sess'[s].recv = "next"
         /\ ~sess'[s].err
         /\ hub_key(h) \in DOMAIN store) =>
            /\ ReadHub(h)'.status = StatusOk
            /\ ReadHub(h)'.hub.whiteboard /= <<>>
            /\ ReadHub(h)'.hub.whiteboard[Len(ReadHub(h)'.hub.whiteboard)]
                    = sess[s].hub.whiteboard[Len(sess[s].hub.whiteboard)]
            /\ Remaining(store', now', hub_key(h)) = Remaining(store, now, hub_key(h))]_vars

(* C9: a frame that connection a has published while connection b of the same
   room is subscribed is eventually written to b's client with the payload a
   sent, unless b's send_task stops. *)
Running(b) == sess[b].st = "Active" /\ sess[b].send \in {"recv", "forward"}

Pending(a, b, i) ==
    /\ Running(b)
    /\ sess[a].tx = sess[b].tx
    /\ i <= Len(chans[sess[b].tx])
    /\ chans[sess[b].tx][i].from = a
    /\ sess[b].rx <= i

Got(b, e) == \E j \in DOMAIN delivered[b] : delivered[b][j] = e

C9_FrameReachesPeer ==
    \A a \in Sessions : \A b \in Sessions \ {a} : \A i \in 1..MaxEvents :
        \A f \in Frames :
            (Pending(a, b, i) /\ chans[sess[b].tx][i].text = f)
                ~> (Got(b, [text |-> f, from |-> a, seq |-> i]) \/ ~Running(b))

C9_Witness ==
    \E a \in Sessions : \E b \in Sessions \ {a} :
        \E j \in DOMAIN delivered[b] :
            /\ delivered[b][j].from = a
            /\ delivered[b][j] = chans[sess[b].tx][delivered[b][j].seq]

(* C10: room isolation: a frame is only ever handed or written to the
   connections of the space whose connection published it. *)
C10_RoomIsolation ==
    \A s \in Sessions :
        /\ \A j \in DOMAIN delivered[s] : sess[delivered[s][j].from].id = sess[s].id
        /\ sess[s].send = "forward" => sess[sess[s].out.from].id = sess[s].id

\* a frame published in one space has been written to its own client while a
\* connection of another space is subscribed and has been written nothing
C10_Witness ==
    \E a \in Sessions : \E b \in Sessions \ {a} :
        /\ sess[a].id /= sess[b].id
        /\ Running(a) /\ Running(b)
        /\ \E j \in DOMAIN delivered[a] : delivered[a][j].from = a
        /\ delivered[b] = <<>>

(* C11: every connection is written the frames of its room in the order in
   which they were published (their place in the room's channel), and two
   connections are written the frames they both get in the same order, also
   when the frames come from different publishers. *)
C11_PublishOrder ==
    /\ \A s \in Sessions : \A i, j \in DOMAIN delivered[s] :
            i < j => delivered[s][i].seq < delivered[s][j].seq
    /\ \A a, b \in Sessions :
        \A i, j \in DOMAIN delivered[a] : \A k, l \in DOMAIN delivered[b] :
            (/\ i < j
             /\ delivered[a][i] = delivered[b][k]
             /\ delivered[a][j] = delivered[b][l]) => k < l

\* two connections have each been written the same two frames, published by
\* different connections
C11_Witness ==
    \E a \in Sessions : \E b \in Sessions \ {a} :
        /\ Len(delivered[a]) >= 2
        /\ Len(delivered[b]) >= 2
        /\ delivered[a][1].from /= delivered[a][2].from
        /\ delivered[b][1] = delivered[a][1]
        /\ delivered[b][2] = delivered[a][2]

(* C12: delivery is at-most-once: the frame written to a connection is the
   one its receiver has just moved past, it was not written to that connection
   before, and the receiver never moves back to a frame it has passed. *)
C12_AtMostOnce ==
    [][\A s \in Sessions :
        /\ delivered'[s] /= delivered[s] =>
            /\ Len(delivered'[s]) = Len(delivered[s]) + 1
            /\ delivered'[s][Len(delivered'[s])].seq = sess[s].rx - 1
            /\ \A j \in DOMAIN delivered[s] :
                    /\ delivered'[s][j] = delivered[s][j]
                    /\ delivered[s][j].seq /= delivered'[s][Len(delivered'[s])].seq
        /\ sess[s].st = "Active" => sess'[s].rx >= sess[s].rx
        /\ (sess[s].send = "recv" /\ sess'[s].send = "forward") =>
                sess'[s].rx > sess[s].rx]_vars

\* a connection that joined after the first frame of its room was published
\* has been written a later frame, and never the first one
C12_Witness ==
    \E s \in Sessions :
        /\ delivered[s] /= <<>>
        /\ delivered[s][1].seq > 1
        /\ Len(chans[sess[s].tx]) >= 2

(* C13: once the client has closed a connection's transport, the connection
   reaches Closed with neither of its two tasks running. *)
Ended(s) ==
    /\ sess[s].st = "Closed"
    /\ sess[s].send \in {"done", "aborted"}
    /\ sess[s].recv \in {"done", "aborted"}

C13_ClosedSessionEnds == \A s \in Sessions : sess[s].closed ~> Ended(s)

\* a connection whose client closed it while a frame was being persisted has
\* ended: recv_task finished on its own and send_task was aborted
C13_Witness ==
    \E s \in Sessions :
        /\ sess[s].closed
        /\ sess[s].st = "Closed"
        /\ sess[s].recv = "done"
        /\ sess[s].send = "aborted"
        /\ sess[s].closed_at >= 1

(* C14: the steps by which a closed connection a ends change nothing of
   another connection b, of the room map or of the channels; once a has ended,
   a text frame of b is still accepted by the channel the room map holds for
   b's space; and every frame the room accepts after a's close is eventually
   written to b's client, unless b's own send_task stops. *)
PublishedAfterClose(a, b, i) ==
    /\ sess[a].closed
    /\ sess[a].tx = sess[b].tx
    /\ Running(b)
    /\ i > sess[a].closed_at
    /\ i <= Len(chans[sess[b].tx])
    /\ sess[b].rx <= i

C14_CloseLeavesPeers ==
    /\ [][\A a \in Sessions : \A b \in Sessions \ {a} :
            /\ (sess'[a].closed /\ sess'[a] /= sess[a]) =>
                    /\ sess'[b] = sess[b]
                    /\ delivered'[b] = delivered[b]
                    /\ rooms' = rooms
                    /\ chans' = chans
            /\ (/\ Ended(a) /\ sess[a].closed
                 /\ Running(b) /\ sess[b].recv = "next" /\ ~sess[b].closed
                 /\ nev' = nev + 1
                 /\ ~sess'[b].closed /\ sess'[b].recv /= "done") =>
                    /\ rooms[room_key(sess[b].id)] = sess[b].tx
                    /\ Len(chans'[sess[b].tx]) = Len(chans[sess[b].tx]) + 1
                    /\ chans'[sess[b].tx][Len(chans'[sess[b].tx])].from = b]_vars
    /\ \A a \in Sessions : \A b \in Sessions \ {a} : \A i \in 1..MaxEvents :
            PublishedAfterClose(a, b, i)
                ~> ((\E j \in DOMAIN delivered[b] : delivered[b][j].seq = i) \/ ~Running(b))

\* connection a was closed and has ended; b, in the same room, has since
\* published a frame and been written it
C14_Witness ==
    \E a \in Sessions : \E b \in Sessions \ {a} :
        /\ Ended(a) /\ sess[a].closed
        /\ sess[a].tx = sess[b].tx
        /\ Running(b)
        /\ \E j \in DOMAIN delivered[b] :
                /\ delivered[b][j].seq > sess[a].closed_at
                /\ delivered[b][j].from = b

(* C15: a text frame that does not parse, and a failure of a persistence step
   of a frame that does (connection, GET, TTL, SET), leave recv_task waiting
   for the next frame and the connection Active. *)
C15_FailureKeepsSession ==
    [][\A s \in Sessions :
        /\ (/\ sess[s].recv = "next"
             /\ Len(chans'[sess[s].tx]) > Len(chans[sess[s].tx])
             /\ chans'[sess[s].tx][Len(chans'[sess[s].tx])].from = s
             /\ ws_from_str(chans'[sess[s].tx][Len(chans'[sess[s].tx])].text) = None) =>
                sess'[s].recv = "next" /\ sess'[s].st = "Active"
        /\ (sess[s].recv \in {"get", "ttl", "set"} /\ sess'[s].err) =>
                sess'[s].recv = "next" /\ sess'[s].st = "Active"]_vars

(* C16: a text frame that is not of the shape {"PathCompleted": path} is
   handed to the room's channel as it came, and recv_task goes on to the next
   frame without a read or a write of the record store. *)
C16_OpaqueFrameNotPersisted ==
    [][\A s \in Sessions : \A f \in Frames :
        (/\ sess[s].recv = "next"
         /\ Len(chans'[sess[s].tx]) = Len(chans[sess[s].tx]) + 1
         /\ chans'[sess[s].tx][Len(chans'[sess[s].tx])].from = s
         /\ chans'[sess[s].tx][Len(chans'[sess[s].tx])].text = f
         /\ f[1] /= "PathCompleted") =>
            /\ store' = store
            /\ sess'[s].recv = "next"
            /\ sess'[s].hub = NoHub]_vars

\* a frame of another shape has gone from one connection to the client of
\* another, and the store holds what it held
C16_Witness ==
    \E a \in Sessions : \E b \in Sessions \ {a} : \E j \in DOMAIN delivered[b] :
        /\ delivered[b][j].from = a
        /\ delivered[b][j].text = FrameText("CursorMoved", Stroke1)
        /\ store = InitStore

(* C17: the room map never loses or replaces the channel of a space, and
   every connection that has joined a space holds the channel the map holds
   for it, whenever it joined. *)
C17_OneChannelPerSpace ==
    [][/\ \A k \in DOMAIN rooms : k \in DOMAIN rooms' /\ rooms'[k] = rooms[k]
       /\ \A s \in Sessions :
            sess'[s].st /= "Idle" =>
                /\ room_key(sess'[s].id) \in DOMAIN rooms'
                /\ sess'[s].tx = rooms'[room_key(sess'[s].id)]]_vars

\* a connection has joined a space whose only earlier connection has ended,
\* and holds the channel that connection held
C17_Witness ==
    \E a \in Sessions : \E b \in Sessions \ {a} :
        /\ Ended(a)
        /\ sess[b].st = "Connecting"
        /\ sess[b].id = sess[a].id
        /\ sess[b].tx = sess[a].tx
        /\ Receivers(sess[b].tx) = {}

(* C18: create writes only if the id is absent: when create_hub's id already
   has a record, the record and its remaining TTL stay as they are and the
   answer is not 201 Created. *)
C18_CreateOnlyIfAbsent ==
    [][\A p \in Procs : \A id \in Ids :
        (/\ http[p].pc = "create_set"
         /\ http[p].id = id
         /\ hub_key(id) \in DOMAIN store
         /\ Returns(p)) =>
            /\ hub_key(id) \in DOMAIN store'
            /\ store'[hub_key(id)] = store[hub_key(id)]
            /\ resp'.status /= StatusCreated]_vars

\* task p returns 201 Created from create_hub in this step, for hub id
Created(p, id) ==
    /\ http[p].pc = "create_set"
    /\ http[p].id = id
    /\ Returns(p)
    /\ resp'.status = StatusCreated

(* C19: when createHub returns a hub, readHub of its id finds the record with
   files = [] and whiteboard = []. *)
C19_CreatedListsEmpty ==
    [][\A p \in Procs : \A id \in Ids :
        Created(p, id) =>
            /\ ReadHub(id)'.status = StatusOk
            /\ ReadHub(id)'.hub.files = <<>>
            /\ ReadHub(id)'.hub.whiteboard = <<>>]_vars

\* create_hub has just answered 201 for a second hub, which the store holds
C19_Witness ==
    /\ resp.op = "create_hub"
    /\ resp.status = StatusCreated
    /\ resp.id /= FirstId
    /\ ReadHub(resp.id).status = StatusOk
    /\ ReadHub(resp.id).hub.id = resp.id
    /\ ReadHub(resp.id).hub.files = <<>>

(* C20: when createHub returns a hub, readHub of its id returns the empty
   string as content. *)
C20_CreatedContentEmpty ==
    [][\A p \in Procs : \A id \in Ids :
        Created(p, id) => ReadHub(id)'.hub.content = ""]_vars

(* C21: createHub writes the record with a TTL of exactly 24 hours, 86400
   seconds, and the expires_at of its answer is the created_at of the stored
   record plus 24 hours. *)
C21_CreatedTtlIsOneDay ==
    [][\A p \in Procs : \A id \in Ids :
        Created(p, id) =>
            /\ Remaining(store', now', hub_key(id)) = 86400
            /\ resp'.expires_at = ReadHub(id)'.hub.created_at + 24 * 3600]_vars

\* create_hub has answered 201 for a record it wrote a second or more after
\* it took the creation instant
C21_Witness ==
    /\ resp.op = "create_hub"
    /\ resp.status = StatusCreated
    /\ hub_key(resp.id) \in DOMAIN store
    /\ resp.expires_at = ReadHub(resp.id).hub.created_at + 86400
    /\ store[hub_key(resp.id)].exp > resp.expires_at

\* the entries upload_file is to add for a multipart body, in upload order
Entries(parts) == [i \in DOMAIN parts |-> FileInfo(parts[i].filename, Len(parts[i].data))]

(* C22: when addFile returns OK after writing on top of the record it read,
   readHub's files are the files of that record followed by one entry
   {filename, size = number of bytes} per uploaded file, in upload order. *)
C22_FilesAppended ==
    [][\A p \in Procs : \A id \in Ids :
        (/\ http[p].pc = "upload_set"
         /\ http[p].id = id
         /\ HttpWrites(p)
         /\ resp'.status = StatusOk
         /\ hub_key(id) \in DOMAIN store
         /\ store[hub_key(id)].val = http[p].seen) =>
            /\ ReadHub(id)'.status = StatusOk
            /\ ReadHub(id)'.hub.files =
                    from_str(http[p].seen).files \o Entries(http[p].parts)]_vars

\* an upload of two files has been written on top of an earlier upload
C22_Witness ==
    /\ resp.op = "upload_file"
    /\ resp.status = StatusOk
    /\ resp.wrote
    /\ ReadHub(resp.id).status = StatusOk
    /\ ReadHub(resp.id).hub.files =
            <<FileInfo("a.txt", 1), FileInfo("a.txt", 2), FileInfo("b.txt", 1)>>

\* the archive of a hub with the given text to which the given files were added
Bundle(content, files) ==
    <<ZipEntry(TextEntryName, as_bytes(content))>>
        \o [i \in DOMAIN files |-> ZipEntry(files[i].filename, files[i].data)]

(* C23: a downloadBundle that succeeds returns one entry with the content of
   the record it read and one entry for every file that an addFile answered
   OK for before, holding the bytes given to that addFile. *)
C23_BundleHasAddedFiles ==
    [][\A id \in Ids :
        /\ (/\ resp' /= resp
             /\ resp'.op = "download_files" /\ resp'.id = id
             /\ resp'.status = StatusOk
             /\ \A p \in Procs : ~Returns(p)) =>
                resp'.archive = Bundle(ReadHub(id).hub.content, added[id])
        /\ \A p \in Procs :
            (/\ http[p].pc = "download_fetch" /\ http[p].id = id
             /\ Returns(p)
             /\ resp'.status = StatusOk) =>
                resp'.archive = Bundle(http[p].hub.content, http[p].had)]_vars

(* C24: a download whose fetch of a file fails ends without a 200 and without
   an archive, a download that answers 200 carries the text entry and an entry
   for every file of the record it read, and no step of a download changes the
   record store. *)
C24_NoPartialArchive ==
    [][\A p \in Procs :
        /\ (http[p].pc = "download_fetch" /\ http'[p] /= http[p]) =>
                store' = store /\ now' = now
        /\ (http[p].pc = "download_fetch" /\ Returns(p)) =>
                IF resp'.status = StatusOk
                THEN Len(resp'.archive) = 1 + Len(http[p].hub.files)
                ELSE resp'.archive = <<>>]_vars

\* the fetch of the second file of a record failed while its body was read:
\* the caller got neither a response nor an archive
C24_Witness ==
    /\ resp.op = "download_files"
    /\ resp.status = 0
    /\ resp.archive = <<>>
    /\ ReadHub(resp.id).status = StatusOk
    /\ Len(ReadHub(resp.id).hub.files) = 2

(* C25: every call of a hub operation ends in one of the answers of the
   AppError mapping: 200 or 201, 404 for a missing hub, 400 for a broken
   upload, and the generic 500 for every failure of the record store, the
   pool or the object store. *)
C25_StoreErrorsAre500 ==
    resp.op /= "none" =>
        resp.status \in {StatusOk, StatusCreated, StatusNotFound, StatusBadRequest,
                         StatusInternal}

(* C26: readHub changes nothing: the record store, the clock, the object
   store and the room map are what they were; it answers the stored record
   when the key exists and 404 when it does not (or 500 when the store
   fails), and the store holds the keys it held. *)
C26_ReadHubReadOnly ==
    [][\A id \in Ids :
        (resp' /= resp /\ resp'.op = "get_hub" /\ resp'.id = id) =>
            /\ store' = store /\ now' = now
            /\ blobs' = blobs
            /\ rooms' = rooms /\ chans' = chans
            /\ resp'.status \in {StatusOk, StatusNotFound, StatusInternal}
            /\ resp'.status = StatusOk =>
                    /\ hub_key(id) \in DOMAIN store
                    /\ resp'.hub = from_str(store[hub_key(id)].val)
            /\ resp'.status = StatusNotFound => hub_key(id) \notin DOMAIN store]_vars

\* get_hub has answered 404 for an id whose record nobody created, and the
\* store still has no key for it
C26_Witness ==
    /\ resp.op = "get_hub"
    /\ resp.status = StatusNotFound
    /\ hub_key(resp.id) \notin DOMAIN store
    /\ resp.id \notin used

(* C27: the id stored in a record is the id of its key, and no write other
   than a creation changes the id or the created_at of the record under a
   key. *)
C27_IdAndCreatedAtFixed ==
    /\ [](\A i \in Ids :
            /\ hub_key(i) \in DOMAIN store => from_str(store[hub_key(i)].val).id = i
            /\ space_key(i) \in DOMAIN store => from_str(store[space_key(i)].val).id = i)
    /\ [][\A k \in Keys :
            (/\ k \in DOMAIN store /\ k \in DOMAIN store'
             /\ \A p \in Procs : ~(http[p].pc = "create_set" /\ Returns(p))) =>
                /\ from_str(store'[k].val).id = from_str(store[k].val).id
                /\ from_str(store'[k].val).created_at = from_str(store[k].val).created_at]_vars

(* C28: a connection leaves Active only because its client closed the
   transport, a frame of the client ended the stream, or a write to the client
   failed: never because a store call of recv_task failed, and a receiver that
   is a whole channel capacity behind does not end send_task. *)
C28_LeavesActiveOnlyOnDisconnect ==
    [][\A s \in Sessions :
        /\ (sess[s].st = "Active" /\ sess'[s].st = "Closed") =>
                (sess[s].recv = "done" => ~sess[s].err)
        /\ (/\ sess[s].send = "recv"
             /\ sess[s].rx <= Len(chans[sess[s].tx])
             /\ Len(chans[sess[s].tx]) - sess[s].rx >= ChannelCapacity) =>
                sess'[s].send /= "done"]_vars

(* C29: every mutation reads the record, then the TTL, then writes: a task
   reaches its TTL step only with the record it has read, reaches its write
   only from its TTL step with the TTL the store answered, which is > 0, and
   the write sets that TTL as the expiry. *)
C29_ReadTtlWriteOrder ==
    [][/\ \A p \in Procs : \A id \in Ids :
            LET k == hub_key(id)
            IN http[p].id = id \/ http'[p].id = id =>
               /\ (http'[p].pc \in {"text_ttl", "upload_field"} /\ http[p].pc = "idle") =>
                    k \in DOMAIN store /\ http'[p].seen = store[k].val
               /\ (http'[p].pc \in {"text_set", "upload_set"} /\ http[p].pc /= http'[p].pc) =>
                    /\ http[p].pc \in {"text_ttl", "upload_field"}
                    /\ http[p].seen /= NoJson
                    /\ http'[p].ttl = TTL(k)
                    /\ http'[p].ttl > 0
               /\ HttpWrites(p) =>
                    /\ http[p].ttl > 0
                    /\ store'[k].exp = now + http[p].ttl
               /\ (http[p].pc \in {"idle", "text_ttl", "upload_field"} /\ http[p].op /= "none"
                        /\ http'[p] /= http[p]) =>
                    store' = store
       /\ \A s \in Sessions : \A id \in Ids :
            LET k == space_key(id)
            IN sess[s].id = id =>
               /\ (sess'[s].recv = "ttl" /\ sess[s].recv /= "ttl") =>
                    /\ sess[s].recv = "get"
                    /\ k \in DOMAIN store /\ sess'[s].seen = store[k].val
               /\ (sess'[s].recv = "set" /\ sess[s].recv /= "set") =>
                    /\ sess[s].recv = "ttl"
                    /\ sess'[s].ttl = TTL(k)
                    /\ sess'[s].ttl > 0
               /\ WsWrites(s) =>
                    /\ sess[s].ttl > 0
                    /\ store'[k].exp = now + sess[s].ttl
               /\ (sess[s].recv \in {"get", "ttl"} /\ sess'[s] /= sess[s]) =>
                    store' = store]_vars

\* a mutation found the TTL of a record it had read to be gone and has
\* answered without a write
C29_Witness ==
    /\ resp.op \in Mutations
    /\ resp.status = StatusOk
    /\ ~resp.wrote
    /\ hub_key(resp.id) \in evicted
    /\ hub_key(resp.id) \notin DOMAIN store

(* C30: addFile writes back a record derived from a read made after its blob
   puts: when the store still holds the record it held as the last put
   completed, the write keeps that record's content and appends the uploaded
   files to that record's files. *)
C30_UploadReadsAfterPuts ==
    [][\A p \in Procs : \A id \in Ids :
        (/\ http[p].pc = "upload_set"
         /\ http[p].id = id
         /\ HttpWrites(p)
         /\ hub_key(id) \in DOMAIN store
         /\ store[hub_key(id)].val = http[p].atput) =>
            /\ ReadHub(id)'.hub.content = ReadHub(id).hub.content
            /\ ReadHub(id)'.hub.files = ReadHub(id).hub.files \o Entries(http[p].parts)]_vars

(* C31: a put that fails during addFile, also on a later file after earlier
   files were stored, ends the operation with a failure; no step of the
   operation up to there has touched the record store, so the record and its
   remaining TTL are what they were, and the blobs already written stay. *)
C31_PutFailureLeavesRecord ==
    [][\A p \in Procs :
        /\ (http[p].pc = "idle" /\ http'[p].pc = "upload_field") =>
                store' = store /\ now' = now
        /\ (http[p].pc = "upload_field" /\ http[p].todo /= <<>> /\ http'[p] /= http[p]) =>
                store' = store /\ now' = now
        /\ (http[p].pc = "upload_field" /\ http[p].todo /= <<>> /\ Returns(p)) =>
                /\ resp'.status \in {StatusInternal, StatusBadRequest}
                /\ ~resp'.wrote
                /\ blobs' = blobs]_vars

\* the put of the second file of an upload failed: the answer is 500, the
\* first file's blob is in the bucket and the record is the one created
C31_Witness ==
    /\ resp.op = "upload_file"
    /\ resp.status = StatusInternal
    /\ resp.left = 1
    /\ s3_key(resp.id, "a.txt") \in DOMAIN blobs
    /\ s3_key(resp.id, "b.txt") \notin DOMAIN blobs
    /\ store = InitStore

\* the operations on an existing hub that answer NotFound for a missing one
HubOps == {"update_text_bin", "upload_file", "download_files"}

(* C32: setText, addFile and downloadBundle on an id that has no record do not
   get past their read of the record: they answer 404 (500 when the store
   could not be asked), put no blob and leave the record store as it is. *)
C32_MissingHubNotFound ==
    [][\A id \in Ids :
        hub_key(id) \notin DOMAIN store =>
            /\ \A p \in Procs :
                    ~(/\ http[p].pc = "idle" /\ http'[p].pc /= "idle"
                      /\ http'[p].op \in HubOps /\ http'[p].id = id)
            /\ (/\ nev' = nev + 1
                 /\ resp' /= resp
                 /\ resp'.op \in HubOps /\ resp'.id = id) =>
                    /\ resp'.status \in {StatusNotFound, StatusInternal}
                    /\ ~resp'.wrote
                    /\ blobs' = blobs
                    /\ store' = store]_vars

\* an upload to an id nobody created was answered 404; the store has no key
\* and the bucket no blob for it
C32_Witness ==
    /\ resp.op = "upload_file"
    /\ resp.status = StatusNotFound
    /\ hub_key(resp.id) \notin DOMAIN store
    /\ \A f \in {"a.txt", "b.txt"} : s3_key(resp.id, f) \notin DOMAIN blobs
    /\ blobs /= <<>>

(* C33: a mutation that writes the record back while the stored value is the
   one it read changes its own field only: setText sets content and leaves
   files and whiteboard, addFile appends its entries to files and leaves
   content and whiteboard, and a whiteboard append adds its one path at the
   end of whiteboard and leaves content and files; id and created_at stay. *)
C33_OwnFieldOnly ==
    [][/\ \A p \in Procs :
            LET k == hub_key(http[p].id)
            IN (HttpWrites(p) /\ k \in DOMAIN store /\ store[k].val = http[p].seen) =>
                LET old == from_str(store[k].val)
                    new == from_str(store'[k].val)
                IN /\ new.id = old.id /\ new.created_at = old.created_at
                   /\ http[p].pc = "text_set" =>
                        /\ new.content = http[p].body
                        /\ new.files = old.files
                        /\ new.whiteboard = old.whiteboard
                   /\ http[p].pc = "upload_set" =>
                        /\ new.content = old.content
                        /\ new.files = old.files \o Entries(http[p].parts)
                        /\ new.whiteboard = old.whiteboard
       /\ \A s \in Sessions :
            LET k == space_key(sess[s].id)
            IN (WsWrites(s) /\ k \in DOMAIN store /\ store[k].val = sess[s].seen) =>
                LET old == from_str(store[k].val)
                    new == from_str(store'[k].val)
                IN /\ new.id = old.id /\ new.created_at = old.created_at
                   /\ new.content = old.content
                   /\ new.files = old.files
                   /\ \E path \in {f[2] : f \in Frames} :
                        new.whiteboard = old.whiteboard \o <<path>>]_vars

\* a setText has been written on top of an upload: the record holds the new
\* text and the uploaded file
C33_Witness ==
    /\ resp.op = "update_text_bin"
    /\ resp.status = StatusOk
    /\ resp.wrote
    /\ ~resp.lost
    /\ ReadHub(resp.id).status = StatusOk
    /\ ReadHub(resp.id).hub.content = "hello"
    /\ ReadHub(resp.id).hub.files = <<FileInfo("a.txt", 2)>>
    /\ ReadHub(resp.id).hub.whiteboard = <<>>

\* w holds entries of g, in the order of g
IsSubseq(w, g) ==
    \E f \in [DOMAIN w -> DOMAIN g] :
        /\ \A i, j \in DOMAIN w : i < j => f[i] < f[j]
        /\ \A i \in DOMAIN w : w[i] = g[f[i]]

\* no other connection of s's space has handed a path to the store
SoleWriter(s) ==
    /\ sess[s].st /= "Idle"
    /\ \A o \in Sessions \ {s} : sess[o].id = sess[s].id => sess[o].got = <<>>

(* C34: recv_task hands a frame to the room's channel in the step in which it
   takes it, before any access to the store for it; while the persistence of
   a frame is in progress the connection takes and publishes no other frame;
   and the whiteboard of a record that one connection alone writes holds paths
   of that connection's frames in the order in which they arrived. *)
C34_PublishThenPersistInOrder ==
    /\ [][\A s \in Sessions :
            /\ (sess[s].recv = "next" /\ sess'[s].recv = "get") =>
                    /\ store' = store
                    /\ Receivers(sess[s].tx) /= {} =>
                            /\ Len(chans'[sess[s].tx]) = Len(chans[sess[s].tx]) + 1
                            /\ chans'[sess[s].tx][Len(chans'[sess[s].tx])].from = s
                            /\ ws_from_str(chans'[sess[s].tx][Len(chans'[sess[s].tx])].text)
                                    = Some(sess'[s].hub.whiteboard[1])
            /\ sess[s].recv \in {"get", "ttl", "set"} =>
                    /\ sess'[s].got = sess[s].got
                    /\ \A i \in DOMAIN chans'[sess[s].tx] :
                            i > Len(chans[sess[s].tx]) => chans'[sess[s].tx][i].from /= s]_vars
    /\ [](\A s \in Sessions :
            (SoleWriter(s) /\ space_key(sess[s].id) \in DOMAIN store) =>
                IsSubseq(from_str(store[space_key(sess[s].id)].val).whiteboard, sess[s].got))

\* a connection has had two different strokes persisted, and the record
\* holds them in the order of their frames
C34_Witness ==
    \E s \in Sessions :
        /\ SoleWriter(s)
        /\ sess[s].got = <<Stroke1, Stroke2>>
        /\ space_key(sess[s].id) \in DOMAIN store
        /\ from_str(store[space_key(sess[s].id)].val).whiteboard = <<Stroke1, Stroke2>>

SessionMoves == {<<"Idle", "Connecting">>, <<"Connecting", "Active">>, <<"Active", "Closed">>}

(* C35: a connection moves only from Connecting to Active to Closed and stays
   Closed; a Closed connection has no task running, publishes no frame and
   starts no read or write of the store; and the step that closes it leaves
   the channels, the store and what was written to the clients as they are
   (no channel ever loses a frame it has accepted). *)
C35_SessionLifecycle ==
    /\ [](\A s \in Sessions :
            sess[s].st = "Closed" =>
                /\ sess[s].send \in {"done", "aborted"}
                /\ sess[s].recv \in {"done", "aborted"})
    /\ [][/\ \A ch \in DOMAIN chans : IsPrefix(chans[ch], chans'[ch])
           /\ \A s \in Sessions :
                /\ sess'[s].st /= sess[s].st => <<sess[s].st, sess'[s].st>> \in SessionMoves
                /\ (sess[s].st = "Active" /\ sess'[s].st = "Closed") =>
                        /\ chans' = chans
                        /\ store' = store
                        /\ delivered' = delivered
                /\ sess[s].st = "Closed" =>
                        /\ sess'[s] = sess[s]
                        /\ ~WsWrites(s)
                        /\ \A i \in DOMAIN chans'[sess[s].tx] :
                                i > Len(chans[sess[s].tx]) => chans'[sess[s].tx][i].from /= s]_vars

\* a connection has closed after one of its strokes was published and
\* persisted; the frame is in the channel and the path in the record, and
\* another connection has published since
C35_Witness ==
    \E s \in Sessions : \E b \in Sessions \ {s} :
        /\ sess[s].st = "Closed"
        /\ sess[s].got = <<Stroke1>>
        /\ space_key(sess[s].id) \in DOMAIN store
        /\ from_str(store[space_key(sess[s].id)].val).whiteboard = <<Stroke1>>
        /\ sess[b].tx = sess[s].tx
        /\ Len(chans[sess[s].tx]) = 2
        /\ chans[sess[s].tx][1].from = s
        /\ chans[sess[s].tx][2].from = b

\* the texts of the text frames the clients send
TextsSent == {m.text : m \in {x \in Strokes : x.kind = "text"}}

(* C36: an item of the client's stream that is not a text frame ends
   recv_task: it is not published (the channels only ever hold text frames
   the clients sent) and not persisted, recv_task takes no frame after it, and
   the connection goes on to Closed with neither task running. *)
C36_NonTextEndsSession ==
    /\ [](\A ch \in DOMAIN chans : \A i \in DOMAIN chans[ch] :
            chans[ch][i].text \in TextsSent)
    /\ [][\A s \in Sessions :
            /\ (sess[s].recv = "next" /\ sess'[s].recv = "done") =>
                    /\ chans' = chans
                    /\ store' = store
                    /\ sess'[s].got = sess[s].got
            /\ sess[s].recv = "done" =>
                    /\ sess'[s].recv = "done"
                    /\ sess'[s].got = sess[s].got
                    /\ store' /= store => \E o \in Sessions \ {s} : WsWrites(o)
                    /\ \A i \in DOMAIN chans'[sess[s].tx] :
                            i > Len(chans[sess[s].tx]) => chans'[sess[s].tx][i].from /= s]_vars
    /\ \A s \in Sessions : (sess[s].recv = "done") ~> Ended(s)

\* a connection whose client never closed the transport has ended on a
\* frame that was not text, after a text frame of its own was written back
\* to it; the channel holds that one frame
C36_Witness ==
    \E s \in Sessions :
        /\ Ended(s)
        /\ ~sess[s].closed
        /\ sess[s].recv = "done"
        /\ ~sess[s].err
        /\ sess[s].send = "aborted"
        /\ Len(chans[sess[s].tx]) = 1
        /\ Len(delivered[s]) = 1

(* C37: the sender is one of the receivers of its room: a frame a connection
   publishes while its own send_task runs is queued for its own receiver too,
   and is eventually written to its own client with the payload it sent,
   unless its send_task stops. *)
C37_SenderReceivesOwnFrames ==
    /\ [][\A s \in Sessions :
            (sess[s].recv = "next" /\ sess'[s].recv = "get" /\ Running(s)) =>
                /\ Len(chans'[sess[s].tx]) = Len(chans[sess[s].tx]) + 1
                /\ chans'[sess[s].tx][Len(chans'[sess[s].tx])].from = s
                /\ sess'[s].rx <= Len(chans'[sess[s].tx])]_vars
    /\ \A s \in Sessions : \A i \in 1..MaxEvents : \A f \in Frames :
            (Pending(s, s, i) /\ chans[sess[s].tx][i].text = f)
                ~> (Got(s, [text |-> f, from |-> s, seq |-> i]) \/ ~Running(s))

\* a connection that is alone in its room has been written its own frame
C37_Witness ==
    \E s \in Sessions :
        /\ Running(s)
        /\ \A o \in Sessions \ {s} : sess[o].st = "Idle"
        /\ delivered[s] /= <<>>
        /\ delivered[s][1].from = s
        /\ delivered[s][1] = chans[sess[s].tx][1]

(* C38: a connection for an id whose key holds no record gets a room and no
   record: joining and subscribing leave the store alone, and a PathCompleted
   frame taken while the key is missing is handed to the room's channel and
   dropped at the GET, so that no TTL is read and nothing is written. *)
C38_NoRecordNoWrite ==
    [][\A s \in Sessions :
        /\ (sess[s].st = "Idle" /\ sess'[s].st = "Connecting") =>
                /\ store' = store /\ now' = now
                /\ room_key(sess'[s].id) \in DOMAIN rooms'
                /\ sess'[s].tx = rooms'[room_key(sess'[s].id)]
        /\ (sess[s].st = "Connecting" /\ sess'[s].st = "Active") =>
                store' = store /\ now' = now
        /\ (sess[s].st = "Active" /\ space_key(sess[s].id) \notin DOMAIN store) =>
                /\ (sess[s].recv = "next" /\ sess'[s].recv = "get") =>
                        /\ store' = store
                        /\ Receivers(sess[s].tx) /= {} =>
                                /\ Len(chans'[sess[s].tx]) = Len(chans[sess[s].tx]) + 1
                                /\ chans'[sess[s].tx][Len(chans'[sess[s].tx])].from = s
                /\ (sess[s].recv = "get" /\ sess'[s].recv /= "get") =>
                        /\ store' = store
                        /\ sess'[s].recv \in {"next", "aborted"}]_vars

\* a connection on an id nobody created has had a stroke of its own written
\* back to its client and dropped at the GET: the store holds no key for it
C38_Witness ==
    \E s \in Sessions :
        /\ Running(s)
        /\ sess[s].id \notin used
        /\ space_key(sess[s].id) \notin DOMAIN store
        /\ hub_key(sess[s].id) \notin DOMAIN store
        /\ sess[s].got = <<Stroke1>>
        /\ sess[s].recv = "next"
        /\ delivered[s] /= <<>>
        /\ delivered[s][1].text = FrameText("PathCompleted", Stroke1)
        /\ store = InitStore

(* C39: a connection is handed and written only frames its room's channel
   accepted after the connection subscribed: nothing published before is
   replayed to it. *)
C39_NoReplayBeforeSubscribe ==
    \A s \in Sessions :
        /\ \A j \in DOMAIN delivered[s] : delivered[s][j].seq > sess[s].sub_at
        /\ sess[s].send = "forward" => sess[s].out.seq > sess[s].sub_at
        /\ sess[s].st \in {"Active", "Closed"} => sess[s].rx > sess[s].sub_at

\* a connection that subscribed after the first frame of its room has been
\* written the second frame and not the first, which the record holds
C39_Witness ==
    \E s \in Sessions :
        /\ sess[s].sub_at = 1
        /\ Len(delivered[s]) = 1
        /\ delivered[s][1].seq = 2
        /\ sess[s].send = "recv"
        /\ sess[s].rx = 3
        /\ space_key(sess[s].id) \in DOMAIN store
        /\ Len(from_str(store[space_key(sess[s].id)].val).whiteboard) >= 1

====
